---------------------------- MODULE Spec2Model ----------------------------
(***************************************************************************)
(* A model of expressions/expressions.py: the Expression class hierarchy,  *)
(* the arithmetic combinators, Operator.__str__, postvisitor and the       *)
(* singledispatch function differentiate.                                  *)
(*                                                                         *)
(* Objects whose identity matters (postvisitor's visited dict hashes by    *)
(* identity, the combinators reuse operand objects) live in `heap`, a      *)
(* sequence of node records addressed by their index.  The pure functions  *)
(* (__str__, differentiate) are computed on expression values: tuples      *)
(* <<class, left, right>> for operators and <<class, value>> for terminals.*)
(* Python values are tagged tuples <<type, payload>>.                      *)
(***************************************************************************)
EXTENDS Integers, Sequences, FiniteSets, TLC

VARIABLES
    heap,      \* the objects constructed so far: index -> [cls, operands, value]
    expr,      \* postvisitor's argument expr (a heap index)
    fnFails,   \* the nodes on which the caller's fn raises
    stack,     \* postvisitor's local stack
    visited,   \* postvisitor's local dict visited: node -> fn's result
    calls,     \* the invocations of fn so far, in order
    pc,        \* where the running call is: "loop", "done", "raised", ...
    ret,       \* the value the call returned (NoRet before it returns)
    exc,       \* the exception that left the call (NoExc if none)
    call,      \* the last constructor or combinator call: what was asked
    tree,      \* the expression value given to __str__ / differentiate
    kwargs     \* the keyword arguments given to differentiate

vars == <<heap, expr, fnFails, stack, visited, calls, pc, ret, exc, call, tree, kwargs>>

-----------------------------------------------------------------------------
(* Bounds of the model.                                                    *)

MaxNodes == 4        \* postvisitor: nodes of the input graph
MaxHeap == 3         \* combinators: objects constructed in one behaviour
MaxOps == 2          \* differentiate: operator nodes of the input
MaxStrOps == 2       \* __str__: operator nodes of the input

-----------------------------------------------------------------------------
(* Python values and the class hierarchy.                                  *)

None == <<"NoneType">>       \* the value None, as an argument
NoRet == <<>>                 \* nothing was returned
NoExc == <<"no exception">>
NoCall == [fn |-> "", self |-> None, other |-> None]
NoAttr == <<>>

PyInt(n) == <<"int", n>>
PyFloat(tenths) == <<"float", tenths>>     \* the float tenths / 10
PyBool(b) == <<"bool", b>>                 \* b is 0 or 1
PyStr(s) == <<"str", s>>

Raise(type, msg) == <<"raise", type, msg>>
IsRaise(v) == Len(v) = 3 /\ v[1] = "raise"

\* class Expression, class Operator(Expression), ... : each class's base.
Base(cls) ==
    CASE cls = "Operator" -> "Expression"
      [] cls = "Terminal" -> "Expression"
      [] cls \in {"Number", "Symbol"} -> "Terminal"
      [] cls \in {"Add", "Sub", "Mul", "Div", "Pow"} -> "Operator"
      [] cls = "bool" -> "int"
      [] OTHER -> "object"

RECURSIVE Mro(_)
Mro(cls) == IF cls = "object" THEN <<"object">> ELSE <<cls>> \o Mro(Base(cls))

IsSubclass(cls, of) == \E i \in 1..Len(Mro(cls)) : Mro(cls)[i] = of

\* type(v) of a Python value or of an expression value.
TypeOf(v) == v[1]

\* A reference to the object at heap index i, as an argument or a result.
Ref(i) == <<"ref", i>>
IsRef(v) == v[1] = "ref"

\* type(a).__name__ of an argument: a reference to an object, or a Python value.
TypeIn(h, a) == IF IsRef(a) THEN h[a[2]].cls ELSE TypeOf(a)

\* isinstance(a, classes)
IsInstance(h, a, classes) == \E c \in classes : IsSubclass(TypeIn(h, a), c)

-----------------------------------------------------------------------------
(* Construction on the heap.                                               *)

\* Expression.__init__: self.operands = operands
MkOperator(cls, operands) == [cls |-> cls, operands |-> operands, value |-> NoAttr]

\* Terminal.__init__: super().__init__(); self.value = value
MkTerminal(cls, value) == [cls |-> cls, operands |-> <<>>, value |-> value]

Operands(e) == heap[e].operands

-----------------------------------------------------------------------------
(* postvisitor(expr, fn, **kwargs).                                        *)

RECURSIVE Flatten(_)
Flatten(ss) == IF ss = <<>> THEN <<>> ELSE Head(ss) \o Flatten(Tail(ss))

\* The caller's fn, for the runs checked here: the postorder listing of the
\* nodes under e, which depends on every child result and on their order.
Fn(e, args) == Flatten(args) \o <<e>>

FnRaises(e) == e \in fnFails

FnExc(e) == Raise("FnError", e)

\* unvisited_children: the operands o of e with `o not in visited`, in order.
UnvisitedChildren(e) == SelectSeq(Operands(e), LAMBDA o : o \notin DOMAIN visited)

\* A slip: the operands' results are passed last operand first.
ChildResultsReversed(e) ==
    [k \in 1..Len(Operands(e)) |-> visited[Operands(e)[Len(Operands(e)) + 1 - k]]]

\* *(visited[o] for o in e.operands)
ChildResults(e) == [k \in 1..Len(Operands(e)) |-> visited[Operands(e)[k]]]

Top == stack[Len(stack)]
Popped == SubSeq(stack, 1, Len(stack) - 1)

\* A slip: the children are pushed but e is not pushed back.
PushedWithoutNode(e, children) == Popped \o children

\* stack.append(e); for children in unvisited_children: stack.append(children)
\* (after e = stack.pop()).
Pushed(e, children) == Append(Popped, e) \o children

\* One iteration of the while loop that takes the `if unvisited_children` branch.
Expand ==
    /\ pc = "loop"
    /\ stack # <<>>
    /\ UnvisitedChildren(Top) # <<>>
    /\ stack' = Pushed(Top, UnvisitedChildren(Top))
    /\ UNCHANGED <<heap, expr, fnFails, visited, calls, pc, ret, exc, call, tree, kwargs>>

\* A slip: fn's failure is caught inside the loop and the traversal goes on.
VisitSwallowingFailure ==
    /\ pc = "loop"
    /\ stack # <<>>
    /\ UnvisitedChildren(Top) = <<>>
    /\ calls' = Append(calls, [node |-> Top, args |-> ChildResults(Top),
                                ok |-> ~FnRaises(Top)])
    /\ visited' = (Top :> Fn(Top, ChildResults(Top))) @@ visited
    /\ stack' = Popped
    /\ UNCHANGED <<heap, expr, fnFails, pc, ret, exc, call, tree, kwargs>>

\* One iteration that takes the else branch: visited[e] = fn(e, *results).
Visit ==
    /\ pc = "loop"
    /\ stack # <<>>
    /\ UnvisitedChildren(Top) = <<>>
    /\ LET e == Top
           args == ChildResults(e)
       IN  IF FnRaises(e)
           THEN /\ calls' = Append(calls, [node |-> e, args |-> args, ok |-> FALSE])
                /\ exc' = FnExc(e)
                /\ pc' = "raised"
                /\ UNCHANGED <<stack, visited>>
           ELSE /\ calls' = Append(calls, [node |-> e, args |-> args, ok |-> TRUE])
                /\ visited' = (e :> Fn(e, args)) @@ visited
                /\ stack' = Popped
                /\ UNCHANGED <<exc, pc>>
    /\ UNCHANGED <<heap, expr, fnFails, ret, call, tree, kwargs>>

\* The loop ends on an empty stack: return visited[expr].
Return ==
    /\ pc = "loop"
    /\ stack = <<>>
    /\ IF expr \in DOMAIN visited
       THEN ret' = visited[expr] /\ pc' = "done" /\ exc' = exc
       ELSE ret' = ret /\ pc' = "raised" /\ exc' = Raise("KeyError", expr)
    /\ UNCHANGED <<heap, expr, fnFails, stack, visited, calls, call, tree, kwargs>>

\* The nodes a graph of n earlier objects can be extended by: a terminal, or
\* an operator over two objects that already exist.
NewNodes(n) ==
    {MkTerminal("Symbol", PyStr("x"))}
        \cup {MkOperator("Add", <<l, r>>) : l \in 1..n, r \in 1..n}

RECURSIVE Heaps(_)
Heaps(n) ==
    IF n = 0 THEN {<<>>}
    ELSE {Append(h, nd) : h \in Heaps(n - 1), nd \in NewNodes(n - 1)}

\* stack = [expr]; visited = {}
InitVisit ==
    /\ heap \in UNION {Heaps(n) : n \in 1..MaxNodes}
    /\ expr = Len(heap)
    /\ fnFails \in {{}} \cup {{n} : n \in 1..Len(heap)}
    /\ stack = <<expr>>
    /\ visited = <<>>
    /\ calls = <<>>
    /\ pc = "loop"
    /\ ret = NoRet
    /\ exc = NoExc
    /\ call = NoCall
    /\ tree = None
    /\ kwargs = <<>>

NextVisit == Expand \/ Visit \/ Return

SpecVisit == InitVisit /\ [][NextVisit]_vars

\* The loop runs to its end: nothing suspends it.
SpecVisitFair == SpecVisit /\ WF_vars(NextVisit)

-----------------------------------------------------------------------------
(* Constructors and combinators.  Each returns the heap it leaves and its  *)
(* value: a reference to the new object, or the exception it raised.       *)

Alloc(h, node) == [heap |-> Append(h, node), val |-> Ref(Len(h) + 1)]

Failed(h, type, msg) == [heap |-> h, val |-> Raise(type, msg)]

\* A slip: the isinstance check is missing.
Number__init__Unchecked(h, value) == Alloc(h, MkTerminal("Number", value))

\* Number.__init__(value)
Number__init__(h, value) ==
    IF ~IsInstance(h, value, {"int", "float"})
    THEN Failed(h, "TypeError", "Number value must be an int or float.")
    ELSE Alloc(h, MkTerminal("Number", value))

\* Symbol.__init__(value)
Symbol__init__(h, value) ==
    IF ~IsInstance(h, value, {"str"})
    THEN Failed(h, "TypeError", "Symbol value must be a string.")
    ELSE Alloc(h, MkTerminal("Symbol", value))

\* other if isinstance(other, Expression) else Number(other)
Coerce(h, other) ==
    IF IsInstance(h, other, {"Expression"})
    THEN [heap |-> h, val |-> other]
    ELSE Number__init__(h, other)

\* Op(self, <coerced other>): __add__, __sub__, __mul__, __truediv__, __pow__
Forward(h, cls, self, other) ==
    LET c == Coerce(h, other)
    IN  IF IsRaise(c.val) THEN c
        ELSE Alloc(c.heap, MkOperator(cls, <<self[2], c.val[2]>>))

\* A slip: the reflected form builds its operands in the forward order.
ReflectedUnswapped(h, cls, self, other) == Forward(h, cls, self, other)

\* Op(<coerced other>, self): __radd__, __rsub__, __rmul__, __rtruediv__, __rpow__
Reflected(h, cls, self, other) ==
    LET c == Coerce(h, other)
    IN  IF IsRaise(c.val) THEN c
        ELSE Alloc(c.heap, MkOperator(cls, <<c.val[2], self[2]>>))

\* The values calls are made with, and the objects that exist.
PyValues == {PyInt(2), PyFloat(25), PyBool(1), PyStr("x"), None}
Refs == {Ref(i) : i \in 1..Len(heap)}

\* One call, from entry to return or raise.  Nothing here catches an
\* exception: a call that raises ends the run.
Do(name, self, other, r) ==
    /\ pc = "ready"
    /\ Len(heap) < MaxHeap
    /\ Len(r.heap) <= MaxHeap
    /\ heap' = r.heap
    /\ call' = [fn |-> name, self |-> self, other |-> other]
    /\ IF IsRaise(r.val)
       THEN exc' = r.val /\ ret' = NoRet /\ pc' = "raised"
       ELSE exc' = NoExc /\ ret' = r.val /\ pc' = pc
    /\ UNCHANGED <<expr, fnFails, stack, visited, calls, tree, kwargs>>

Number == \E v \in PyValues :
    Do("Number", None, v, Number__init__(heap, v))
Symbol == \E v \in PyValues :
    Do("Symbol", None, v, Symbol__init__(heap, v))

__add__ == \E self \in Refs, other \in Refs \cup PyValues :
    Do("__add__", self, other, Forward(heap, "Add", self, other))
__sub__ == \E self \in Refs, other \in Refs \cup PyValues :
    Do("__sub__", self, other, Forward(heap, "Sub", self, other))
__mul__ == \E self \in Refs, other \in Refs \cup PyValues :
    Do("__mul__", self, other, Forward(heap, "Mul", self, other))
__truediv__ == \E self \in Refs, other \in Refs \cup PyValues :
    Do("__truediv__", self, other, Forward(heap, "Div", self, other))
__pow__ == \E self \in Refs, other \in Refs \cup PyValues :
    Do("__pow__", self, other, Forward(heap, "Pow", self, other))
__radd__ == \E self \in Refs, other \in Refs \cup PyValues :
    Do("__radd__", self, other, Reflected(heap, "Add", self, other))
__rsub__ == \E self \in Refs, other \in Refs \cup PyValues :
    Do("__rsub__", self, other, Reflected(heap, "Sub", self, other))
__rmul__ == \E self \in Refs, other \in Refs \cup PyValues :
    Do("__rmul__", self, other, Reflected(heap, "Mul", self, other))
__rtruediv__ == \E self \in Refs, other \in Refs \cup PyValues :
    Do("__rtruediv__", self, other, Reflected(heap, "Div", self, other))
__rpow__ == \E self \in Refs, other \in Refs \cup PyValues :
    Do("__rpow__", self, other, Reflected(heap, "Pow", self, other))

\* No object exists before the first constructor call.
InitBuild ==
    /\ heap = <<>>
    /\ expr = 0
    /\ fnFails = {}
    /\ stack = <<>>
    /\ visited = <<>>
    /\ calls = <<>>
    /\ pc = "ready"
    /\ ret = NoRet
    /\ exc = NoExc
    /\ call = NoCall
    /\ tree = None
    /\ kwargs = <<>>

NextBuild ==
    \/ Number \/ Symbol
    \/ __add__ \/ __sub__ \/ __mul__ \/ __truediv__ \/ __pow__
    \/ __radd__ \/ __rsub__ \/ __rmul__ \/ __rtruediv__ \/ __rpow__

SpecBuild == InitBuild /\ [][NextBuild]_vars

-----------------------------------------------------------------------------
(* Expression values, for the pure functions.                              *)

NumberV(value) == <<"Number", value>>
SymbolV(name) == <<"Symbol", PyStr(name)>>
OperatorV(cls, left, right) == <<cls, left, right>>

\* The expression values with exactly n operator nodes.
RECURSIVE TreesOf(_, _, _)
TreesOf(n, leaves, classes) ==
    IF n = 0 THEN leaves
    ELSE UNION {{OperatorV(c, l, r) : c \in classes,
                                     l \in TreesOf(i, leaves, classes),
                                     r \in TreesOf(n - 1 - i, leaves, classes)}
                : i \in 0..(n - 1)}

\* tree is an expression value with at most n operator nodes.
DrawTree(n, leaves, classes) ==
    LET sub == [i \in 0..(n - 1) |-> TreesOf(i, leaves, classes)]
    IN  \/ tree \in leaves
        \/ \E k \in 1..n : \E i \in 0..(k - 1) :
              \E c \in classes : \E l \in sub[i] : \E r \in sub[k - 1 - i] :
                  tree = OperatorV(c, l, r)

-----------------------------------------------------------------------------
(* differentiate: a singledispatch function and its registered rules.      *)

\* The classes differentiate.register was applied to.
Registry == {"Number", "Symbol", "Add", "Mul", "Sub", "Div", "Pow"}

\* singledispatch: the first class of type(expr).__mro__ with a registered
\* implementation; the undecorated function stands for object.
RECURSIVE FirstRegistered(_)
FirstRegistered(mro) ==
    IF mro = <<>> \/ Head(mro) = "object" THEN "object"
    ELSE IF Head(mro) \in Registry THEN Head(mro)
    ELSE FirstRegistered(Tail(mro))

Dispatch(cls) == FirstRegistered(Mro(cls))

RECURSIVE differentiate(_, _)

\* A slip: an unknown expression is treated as a constant.
DefaultAsConstant(e, kw) == NumberV(PyInt(0))

\* def differentiate(expr, *fn, **kwargs): raise NotImplementedError(...)
Default(e, kw) ==
    Raise("NotImplementedError", "Cannot differentiate " \o TypeOf(e))

\* @differentiate.register(Number)
OfNumber(e, kw) == NumberV(PyInt(0))

\* @differentiate.register(Symbol); var is a required keyword-only argument.
OfSymbol(e, kw) ==
    IF "var" \notin DOMAIN kw
    THEN Raise("TypeError", "_() missing 1 required keyword-only argument: 'var'")
    ELSE IF e[2] = kw.var THEN NumberV(PyInt(1)) ELSE NumberV(PyInt(0))

\* left_diff = differentiate(expr.operands[0], *fn, **kwargs)
\* right_diff = differentiate(expr.operands[1], *fn, **kwargs)
\* The pair of derivatives, or the exception of the first call that raises.
Diffs(e, kw) ==
    LET left_diff == differentiate(e[2], kw)
    IN  IF IsRaise(left_diff) THEN left_diff
        ELSE LET right_diff == differentiate(e[3], kw)
             IN  IF IsRaise(right_diff) THEN right_diff
                 ELSE <<left_diff, right_diff>>

\* @differentiate.register(Add)
OfAdd(e, kw) ==
    LET d == Diffs(e, kw)
    IN  IF IsRaise(d) THEN d ELSE OperatorV("Add", d[1], d[2])

\* @differentiate.register(Mul)
OfMul(e, kw) ==
    LET d == Diffs(e, kw)
        left == e[2]
        right == e[3]
    IN  IF IsRaise(d) THEN d
        ELSE OperatorV("Add", OperatorV("Mul", d[1], right),
                              OperatorV("Mul", left, d[2]))

\* @differentiate.register(Sub)
OfSub(e, kw) ==
    LET d == Diffs(e, kw)
    IN  IF IsRaise(d) THEN d ELSE OperatorV("Sub", d[1], d[2])

\* A slip: the numerator of the quotient rule is written the other way round.
OfDivSwapped(e, kw) ==
    LET d == Diffs(e, kw)
        left == e[2]
        right == e[3]
    IN  IF IsRaise(d) THEN d
        ELSE OperatorV("Div",
                 OperatorV("Sub", OperatorV("Mul", left, d[2]),
                                  OperatorV("Mul", right, d[1])),
                 OperatorV("Pow", right, NumberV(PyInt(2))))

\* @differentiate.register(Div)
OfDiv(e, kw) ==
    LET d == Diffs(e, kw)
        left == e[2]
        right == e[3]
    IN  IF IsRaise(d) THEN d
        ELSE OperatorV("Div",
                 OperatorV("Sub", OperatorV("Mul", right, d[1]),
                                  OperatorV("Mul", left, d[2])),
                 OperatorV("Pow", right, NumberV(PyInt(2))))

\* A slip (or a "fix"): the chain rule, which differentiates the base.
OfPowChain(e, kw) ==
    LET d == Diffs(e, kw)
    IN  IF IsRaise(d) THEN d
        ELSE OperatorV("Mul",
                 OperatorV("Mul", e[3],
                     OperatorV("Pow", e[2],
                         OperatorV("Sub", e[3], NumberV(PyInt(1))))),
                 d[1])

\* @differentiate.register(Pow)
OfPow(e, kw) ==
    OperatorV("Mul", e[3],
        OperatorV("Pow", e[2], OperatorV("Sub", e[3], NumberV(PyInt(1)))))

differentiate(e, kw) ==
    LET impl == Dispatch(TypeOf(e))
    IN  CASE impl = "Number" -> OfNumber(e, kw)
          [] impl = "Symbol" -> OfSymbol(e, kw)
          [] impl = "Add" -> OfAdd(e, kw)
          [] impl = "Mul" -> OfMul(e, kw)
          [] impl = "Sub" -> OfSub(e, kw)
          [] impl = "Div" -> OfDiv(e, kw)
          [] impl = "Pow" -> OfPow(e, kw)
          [] OTHER -> Default(e, kw)

\* A call on tree returns r, or raises it.
Finish(r) ==
    /\ IF IsRaise(r)
       THEN exc' = r /\ ret' = NoRet /\ pc' = "raised"
       ELSE exc' = NoExc /\ ret' = r /\ pc' = "done"
    /\ UNCHANGED <<heap, expr, fnFails, stack, visited, calls, call, tree, kwargs>>

\* One call differentiate(tree, **kwargs), by the implementation it enters.
DifferentiateDefault ==
    pc = "start" /\ Dispatch(TypeOf(tree)) = "object" /\ Finish(differentiate(tree, kwargs))
DifferentiateNumber ==
    pc = "start" /\ Dispatch(TypeOf(tree)) = "Number" /\ Finish(differentiate(tree, kwargs))
DifferentiateSymbol ==
    pc = "start" /\ Dispatch(TypeOf(tree)) = "Symbol" /\ Finish(differentiate(tree, kwargs))
DifferentiateAdd ==
    pc = "start" /\ Dispatch(TypeOf(tree)) = "Add" /\ Finish(differentiate(tree, kwargs))
DifferentiateMul ==
    pc = "start" /\ Dispatch(TypeOf(tree)) = "Mul" /\ Finish(differentiate(tree, kwargs))
DifferentiateSub ==
    pc = "start" /\ Dispatch(TypeOf(tree)) = "Sub" /\ Finish(differentiate(tree, kwargs))
DifferentiateDiv ==
    pc = "start" /\ Dispatch(TypeOf(tree)) = "Div" /\ Finish(differentiate(tree, kwargs))
DifferentiatePow ==
    pc = "start" /\ Dispatch(TypeOf(tree)) = "Pow" /\ Finish(differentiate(tree, kwargs))

DiffLeaves == {NumberV(PyInt(3)), SymbolV("x"), SymbolV("y")}
DiffClasses == {"Add", "Sub", "Mul", "Div", "Pow", "Operator"}
DiffKwargs == {<<>>, [var |-> PyStr("x")], [var |-> PyStr("y")]}

InitDiff ==
    /\ DrawTree(MaxOps, DiffLeaves, DiffClasses)
    /\ kwargs \in DiffKwargs
    /\ pc = "start"
    /\ ret = NoRet
    /\ exc = NoExc
    /\ heap = <<>>
    /\ expr = 0
    /\ fnFails = {}
    /\ stack = <<>>
    /\ visited = <<>>
    /\ calls = <<>>
    /\ call = NoCall

NextDiff ==
    \/ DifferentiateDefault \/ DifferentiateNumber \/ DifferentiateSymbol
    \/ DifferentiateAdd \/ DifferentiateMul \/ DifferentiateSub
    \/ DifferentiateDiv \/ DifferentiatePow

SpecDiff == InitDiff /\ [][NextDiff]_vars

-----------------------------------------------------------------------------
(* Operator.__str__ and Terminal.__str__.                                  *)

Inf == <<"inf">>      \* float("inf")

\* The class attributes each class body sets.
ClassDict(cls) ==
    CASE cls = "Operator" -> [symbol |-> "", precedence |-> PyInt(0)]
      [] cls = "Terminal" -> [precedence |-> Inf]
      [] cls = "Add" -> [symbol |-> "+", precedence |-> PyInt(1)]
      [] cls = "Sub" -> [symbol |-> "-", precedence |-> PyInt(1)]
      [] cls = "Mul" -> [symbol |-> "*", precedence |-> PyInt(2)]
      [] cls = "Div" -> [symbol |-> "/", precedence |-> PyInt(2)]
      [] cls = "Pow" -> [symbol |-> "^", precedence |-> PyInt(3)]
      [] OTHER -> <<>>

\* Attribute lookup on an instance of a class: the first class of the mro that sets it.
RECURSIVE LookUp(_, _)
LookUp(mro, attr) ==
    IF attr \in DOMAIN ClassDict(Head(mro)) THEN ClassDict(Head(mro))[attr]
    ELSE LookUp(Tail(mro), attr)

GetAttr(e, attr) == LookUp(Mro(TypeOf(e)), attr)

\* a < b for an int or float("inf") a and b
PyLess(a, b) ==
    IF a = Inf THEN FALSE
    ELSE IF b = Inf THEN TRUE
    ELSE a[2] < b[2]

Digit(d) ==
    CASE d = 0 -> "0" [] d = 1 -> "1" [] d = 2 -> "2" [] d = 3 -> "3" [] d = 4 -> "4"
      [] d = 5 -> "5" [] d = 6 -> "6" [] d = 7 -> "7" [] d = 8 -> "8" [] d = 9 -> "9"

RECURSIVE IntStr(_)
IntStr(n) ==
    IF n < 0 THEN "-" \o IntStr(0 - n)
    ELSE IF n < 10 THEN Digit(n)
    ELSE IntStr(n \div 10) \o Digit(n % 10)

\* str(value) of a Python value (a float is held in tenths).
ValueStr(v) ==
    CASE TypeOf(v) = "int" -> IntStr(v[2])
      [] TypeOf(v) = "float" ->
            IF v[2] < 0 THEN "-" \o IntStr((0 - v[2]) \div 10) \o "." \o Digit((0 - v[2]) % 10)
            ELSE IntStr(v[2] \div 10) \o "." \o Digit(v[2] % 10)
      [] TypeOf(v) = "bool" -> IF v[2] = 1 THEN "True" ELSE "False"
      [] TypeOf(v) = "str" -> v[2]
      [] OTHER -> "None"

\* sep.join(parts)
RECURSIVE Join(_, _)
Join(sep, parts) ==
    IF parts = <<>> THEN ""
    ELSE IF Len(parts) = 1 THEN parts[1]
    ELSE parts[1] \o sep \o Join(sep, Tail(parts))

\* A slip: an operand of equal precedence is parenthesised too.
NeedsParensOrEqual(self, operand) ==
    ~PyLess(GetAttr(self, "precedence"), GetAttr(operand, "precedence"))

\* operand.precedence < self.precedence
NeedsParens(self, operand) ==
    PyLess(GetAttr(operand, "precedence"), GetAttr(self, "precedence"))

\* The operands of an expression value, as a tuple.
OperandsV(e) == IF IsSubclass(TypeOf(e), "Terminal") THEN <<>> ELSE Tail(e)

RECURSIVE Str(_)

\* format_operand(operand), inside self.__str__
FormatOperand(self, operand) ==
    IF NeedsParens(self, operand) THEN "(" \o Str(operand) \o ")" ELSE Str(operand)

\* str(e): Terminal.__str__ or Operator.__str__
Str(e) ==
    IF IsSubclass(TypeOf(e), "Terminal")
    THEN ValueStr(e[2])
    ELSE Join(" " \o GetAttr(e, "symbol") \o " ",
              [k \in 1..Len(OperandsV(e)) |-> FormatOperand(e, OperandsV(e)[k])])

\* str(tree), reached through Terminal.__str__
TerminalStr ==
    /\ pc = "start"
    /\ IsSubclass(TypeOf(tree), "Terminal")
    /\ Finish(PyStr(Str(tree)))

\* str(tree), reached through Operator.__str__
OperatorStr ==
    /\ pc = "start"
    /\ IsSubclass(TypeOf(tree), "Operator")
    /\ Finish(PyStr(Str(tree)))

StrLeaves == {SymbolV("a"), SymbolV("b"), SymbolV("c"), NumberV(PyInt(12))}
StrClasses == {"Add", "Sub", "Mul", "Div", "Pow"}

InitStr ==
    /\ DrawTree(MaxStrOps, StrLeaves, StrClasses)
    /\ kwargs = <<>>
    /\ pc = "start"
    /\ ret = NoRet
    /\ exc = NoExc
    /\ heap = <<>>
    /\ expr = 0
    /\ fnFails = {}
    /\ stack = <<>>
    /\ visited = <<>>
    /\ calls = <<>>
    /\ call = NoCall

NextStr == TerminalStr \/ OperatorStr

SpecStr == InitStr /\ [][NextStr]_vars

-----------------------------------------------------------------------------
(* Claims about differentiate.                                             *)

Variants == {"Number", "Symbol", "Add", "Sub", "Mul", "Div", "Pow"}

RECURSIVE BuiltFromVariants(_)
BuiltFromVariants(e) ==
    /\ e[1] \in Variants
    /\ e[1] \notin {"Number", "Symbol"} =>
           BuiltFromVariants(e[2]) /\ BuiltFromVariants(e[3])

Zero == <<"Number", <<"int", 0>>>>
One == <<"Number", <<"int", 1>>>>
Two == <<"Number", <<"int", 2>>>>

\* The rule table, d = RuleTable(_, var).
RECURSIVE RuleTable(_, _)
RuleTable(e, var) ==
    LET l == e[2]
        r == e[3]
        dl == RuleTable(e[2], var)
        dr == RuleTable(e[3], var)
    IN  CASE e[1] = "Number" -> Zero
          [] e[1] = "Symbol" -> IF e[2] = <<"str", var>> THEN One ELSE Zero
          [] e[1] = "Add" -> <<"Add", dl, dr>>
          [] e[1] = "Sub" -> <<"Sub", dl, dr>>
          [] e[1] = "Mul" -> <<"Add", <<"Mul", dl, r>>, <<"Mul", l, dr>>>>
          [] e[1] = "Div" ->
                <<"Div", <<"Sub", <<"Mul", r, dl>>, <<"Mul", l, dr>>>>, <<"Pow", r, Two>>>>
          [] e[1] = "Pow" -> <<"Mul", r, <<"Pow", l, <<"Sub", r, One>>>>>>

X == <<"Symbol", <<"str", "x">>>>
Y == <<"Symbol", <<"str", "y">>>>
Three == <<"Number", <<"int", 3>>>>

\* C3: for a tree built from the seven variants and a variable name var,
\* differentiate returns the tree the rule table gives, unsimplified; in
\* particular d/dx x^3 = Mul(3, Pow(x, Sub(3, 1))) and d/dx (x + y) = Add(1, 0).
C3_DifferentiateFollowsRuleTable ==
    (pc # "start" /\ BuiltFromVariants(tree) /\ "var" \in DOMAIN kwargs) =>
        /\ pc = "done"
        /\ ret = RuleTable(tree, kwargs.var[2])
        /\ (tree = <<"Pow", X, Three>> /\ kwargs.var[2] = "x") =>
               ret = <<"Mul", Three, <<"Pow", X, <<"Sub", Three, One>>>>>>
        /\ (tree = <<"Add", X, Y>> /\ kwargs.var[2] = "x") =>
               ret = <<"Add", One, Zero>>

\* A quotient over a product has been differentiated with respect to x.
C3_Witness ==
    /\ pc = "done"
    /\ tree = <<"Div", X, <<"Mul", X, Y>>>>
    /\ kwargs = [var |-> <<"str", "x">>]

\* C6: differentiate on a node whose class is none of the seven variants
\* raises NotImplementedError naming the node's class, and returns no tree.
C6_UnregisteredVariantRaises ==
    (pc # "start" /\ tree[1] \notin Variants) =>
        /\ pc = "raised"
        /\ exc = <<"raise", "NotImplementedError", "Cannot differentiate " \o tree[1]>>
        /\ ret = NoRet

\* differentiate was given an Operator node with var = "x" and raised.
C6_Witness ==
    /\ pc = "raised"
    /\ tree[1] = "Operator"
    /\ kwargs = [var |-> <<"str", "x">>]

\* C10: on a Pow node differentiate never differentiates an operand: whatever
\* var is (or when it is missing) and whatever the operands hold, registered
\* or not, it returns Mul(exp, Pow(base, Sub(exp, 1))); an Add, Sub, Mul or
\* Div node with an operand of an unregistered class makes it fail.
C10_PowDoesNotRecurse ==
    /\ (pc # "start" /\ tree[1] = "Pow") =>
           /\ pc = "done"
           /\ ret = <<"Mul", tree[3], <<"Pow", tree[2], <<"Sub", tree[3], One>>>>>>
    /\ (pc # "start" /\ tree[1] \in {"Add", "Sub", "Mul", "Div"}
            /\ (tree[2][1] \notin Variants \/ tree[3][1] \notin Variants)) =>
           /\ pc = "raised"
           /\ "var" \in DOMAIN kwargs => exc[2] = "NotImplementedError"

\* A Pow whose base is of an unregistered class and whose exponent is
\* Symbol(var) has been differentiated.
C10_Witness ==
    /\ pc = "done"
    /\ tree[1] = "Pow"
    /\ tree[2][1] = "Operator"
    /\ tree[3] = X
    /\ kwargs = [var |-> <<"str", "x">>]

-----------------------------------------------------------------------------
(* Claims about rendering.                                                 *)

IsLeaf(e) == e[1] \in {"Number", "Symbol"}

Rank(e) ==
    CASE e[1] \in {"Add", "Sub"} -> 1
      [] e[1] \in {"Mul", "Div"} -> 2
      [] e[1] = "Pow" -> 3

SymbolText(e) ==
    CASE e[1] = "Add" -> "+" [] e[1] = "Sub" -> "-" [] e[1] = "Mul" -> "*"
      [] e[1] = "Div" -> "/" [] e[1] = "Pow" -> "^"

A == <<"Symbol", <<"str", "a">>>>
B == <<"Symbol", <<"str", "b">>>>
C == <<"Symbol", <<"str", "c">>>>
Twelve == <<"Number", <<"int", 12>>>>

LeafText(e) ==
    CASE e = A -> "a" [] e = B -> "b" [] e = C -> "c" [] e = Twelve -> "12"

\* "<left> <symbol> <right>", an operand in parentheses iff it is an operator
\* of strictly lower precedence than its parent.
RECURSIVE Rendering(_)
Rendering(e) ==
    LET wrap(child) ==
            IF ~IsLeaf(child) /\ Rank(child) < Rank(e)
            THEN "(" \o Rendering(child) \o ")"
            ELSE Rendering(child)
    IN  IF IsLeaf(e) THEN LeafText(e)
        ELSE wrap(e[2]) \o " " \o SymbolText(e) \o " " \o wrap(e[3])

\* C4: str of an operator node is "<left> <symbol> <right>" with an operand
\* parenthesised iff its precedence is strictly less than the parent's; leaves
\* and equal-precedence operands are never parenthesised, so Sub(a, Sub(b, c))
\* renders as "a - b - c", like Sub(Sub(a, b), c).
C4_RenderingParenthesisesLowerPrecedence ==
    pc = "done" =>
        /\ ret = <<"str", Rendering(tree)>>
        /\ tree \in {<<"Sub", A, <<"Sub", B, C>>>>, <<"Sub", <<"Sub", A, B>>, C>>} =>
               ret = <<"str", "a - b - c">>
        /\ tree = <<"Mul", <<"Add", A, Twelve>>, Twelve>> =>
               ret = <<"str", "(a + 12) * 12">>
        /\ tree = <<"Add", <<"Mul", Twelve, A>>, Twelve>> =>
               ret = <<"str", "12 * a + 12">>

\* Sub(a, Sub(b, c)) has been rendered.
C4_Witness == pc = "done" /\ tree = <<"Sub", A, <<"Sub", B, C>>>>

-----------------------------------------------------------------------------
(* Claims about the constructors and combinators.                          *)

Combinators ==
    {"__add__", "__sub__", "__mul__", "__truediv__", "__pow__",
     "__radd__", "__rsub__", "__rmul__", "__rtruediv__", "__rpow__"}

ReflectedForms == {"__radd__", "__rsub__", "__rmul__", "__rtruediv__", "__rpow__"}

VariantOf(name) ==
    CASE name \in {"__add__", "__radd__"} -> "Add"
      [] name \in {"__sub__", "__rsub__"} -> "Sub"
      [] name \in {"__mul__", "__rmul__"} -> "Mul"
      [] name \in {"__truediv__", "__rtruediv__"} -> "Div"
      [] name \in {"__pow__", "__rpow__"} -> "Pow"

IsNumeric(v) == v[1] \in {"int", "float", "bool"}
IsString(v) == v[1] = "str"

\* C5: a combinator given an Expression or a numeric literal returns a new
\* node of its operator variant with exactly two operands in the written
\* order (self first, or last in a reflected form); an Expression operand is
\* the same object, a literal k is a new Number(k); no older object changes.
C5_CombinatorBuildsOperator ==
    [][LET c == call'
           n == Len(heap)
           literal == ~IsRef(c.other)
           otherId == IF literal THEN n + 1 ELSE c.other[2]
           newId == IF literal THEN n + 2 ELSE n + 1
       IN  (c.fn \in Combinators /\ (IsRef(c.other) \/ IsNumeric(c.other))) =>
               /\ exc' = NoExc
               /\ ret' = Ref(newId)
               /\ Len(heap') = newId
               /\ SubSeq(heap', 1, n) = heap
               /\ literal =>
                      heap'[n + 1] =
                          [cls |-> "Number", operands |-> <<>>, value |-> c.other]
               /\ heap'[newId].cls = VariantOf(c.fn)
               /\ heap'[newId].operands =
                      IF c.fn \in ReflectedForms
                      THEN <<otherId, c.self[2]>>
                      ELSE <<c.self[2], otherId>>
      ]_vars

\* A reflected combinator was called with a literal on the left.
C5_Witness ==
    /\ call.fn = "__rsub__"
    /\ call.other = PyFloat(25)
    /\ heap[call.self[2]].cls = "Symbol"
    /\ exc = NoExc

TypeMismatch == IsRaise(exc') /\ exc'[2] = "TypeError" /\ heap' = heap /\ ret' = NoRet

\* C7: Number(v) builds a Number for every numeric v and Symbol(v) a Symbol
\* for every string v; any other v raises TypeError and no object is built;
\* a combinator given an operand that is neither an Expression nor numeric
\* raises TypeError too and builds no node.
C7_ConstructorTypeCheck ==
    [][LET c == call'
           built(cls) ==
               /\ exc' = NoExc
               /\ heap' = Append(heap, [cls |-> cls, operands |-> <<>>,
                                        value |-> c.other])
               /\ ret' = Ref(Len(heap'))
       IN  /\ c.fn = "Number" =>
                  IF IsNumeric(c.other) THEN built("Number") ELSE TypeMismatch
           /\ c.fn = "Symbol" =>
                  IF IsString(c.other) THEN built("Symbol") ELSE TypeMismatch
           /\ (c.fn \in Combinators /\ ~IsRef(c.other) /\ ~IsNumeric(c.other)) =>
                  TypeMismatch
      ]_vars

\* A combinator on an existing node was given a string and raised.
C7_Witness ==
    /\ call.fn = "__radd__"
    /\ call.other = PyStr("x")
    /\ Len(heap) >= 2
    /\ pc = "raised"

-----------------------------------------------------------------------------
(* Claims about postvisitor.                                               *)

\* The nodes reachable from e through operands, e included.
RECURSIVE Reach(_)
Reach(e) ==
    {e} \cup UNION {Reach(Operands(e)[k]) : k \in 1..Len(Operands(e))}

CallsOn(n) == {i \in 1..Len(calls) : calls[i].node = n}

\* C1: in one postvisitor call, fn is never invoked twice on the same node
\* object, and once the call has returned fn has been invoked exactly once on
\* every node reachable from the root.
C1_FnOncePerNode ==
    /\ \A n \in 1..Len(heap) : Cardinality(CallsOn(n)) <= 1
    /\ pc = "done" => \A n \in Reach(expr) : Cardinality(CallsOn(n)) = 1

\* C2: every invocation of fn on a node comes after a successful invocation on
\* each of the node's operands, and its k-th child result is what fn returned
\* for the node's k-th operand.
C2_OperandsFirstInOrder ==
    \A i \in 1..Len(calls) :
        LET c == calls[i]
            ops == Operands(c.node)
        IN  /\ Len(c.args) = Len(ops)
            /\ \A k \in 1..Len(ops) :
                   \E j \in 1..(i - 1) :
                       /\ calls[j].node = ops[k]
                       /\ calls[j].ok
                       /\ Fn(calls[j].node, calls[j].args) = c.args[k]

\* A finished run that invoked fn on a node with two different operands.
C2_Witness ==
    /\ pc = "done"
    /\ \E i \in 1..Len(calls) :
           /\ Len(calls[i].args) = 2
           /\ calls[i].args[1] # calls[i].args[2]

\* C8: when fn fails on no node of the graph, postvisitor terminates; it
\* returns what fn produced for the root, the root is the last node processed,
\* and the stack is empty exactly when the root's result is available.
C8_TerminatesWithRootResult ==
    /\ (fnFails \cap Reach(expr) = {}) => <>(pc = "done")
    /\ [](pc = "done" =>
            /\ calls # <<>>
            /\ calls[Len(calls)].node = expr
            /\ ret = Fn(expr, calls[Len(calls)].args))
    /\ []((stack = <<>>) <=> (expr \in DOMAIN visited))
    /\ []((expr \in DOMAIN visited) => calls[Len(calls)].node = expr)

\* A run over a graph of at least three nodes has returned.
C8_Witness == pc = "done" /\ Cardinality(Reach(expr)) >= 3

\* C9: a failure of fn ends the traversal: the failed invocation is the last
\* one, fn's own exception leaves postvisitor, nothing is returned, fn is never
\* reported successful on a node it fails on, and the graph is not changed.
C9_FailureStopsTraversal ==
    /\ [](\A i \in 1..Len(calls) :
            /\ calls[i].ok => ~FnRaises(calls[i].node)
            /\ ~calls[i].ok =>
                  /\ i = Len(calls)
                  /\ pc = "raised"
                  /\ exc = FnExc(calls[i].node)
                  /\ ret = NoRet)
    /\ [][heap' = heap]_vars

\* fn failed after it had succeeded on other nodes, with work left on the stack.
C9_Witness == pc = "raised" /\ Len(calls) >= 2 /\ Len(stack) >= 2

=============================================================================
